---- MODULE Spec2Model ----
(***************************************************************************)
(* Bridge controller and bridge context helpers of package ari             *)
(* (bridges.go).  The controller composes a path and a payload for each    *)
(* operation and hands them to the client's AriGet / AriPost / AriDelete;  *)
(* the context helpers attach a *Bridge to a context.Context under a       *)
(* bridgeKey and read it back.                                             *)
(*                                                                         *)
(* Strings built by concatenation ("/bridges/"+bridgeId+"/moh") are kept   *)
(* as the sequence of their pieces, in order.  A JSON object is a function *)
(* from its keys to their values.  The Go nil error is the string "nil".   *)
(***************************************************************************)
EXTENDS Integers, Sequences, FiniteSets, TLC

VARIABLES server, before, last, carriers

vars == <<server, before, last, carriers>>

(***************************************************************************)
(* Input domains.                                                          *)
(***************************************************************************)
BridgeIds == {"b1", "b2"}
Names == {"", "n1", "n2"}
ChannelIds == {"c1", "c2"}
Roles == {"", "announcer"}
MohClasses == {"", "jazz"}
PlaybackIds == {"p1"}
PlayMediaRequests == {[media |-> "sound:hello"]}
RecordRequests == {[name |-> "rec1"]}
CreateBridgeRequests ==
  [Id : {""}, Type : {""}, Name : Names]
    \cup {[Id |-> "b2", Type |-> "holding", Name |-> "n1"]}
AddChannelRequests == [ChannelId : ChannelIds, Role : Roles]

NoErr == "nil"
NoValue == "none"

(***************************************************************************)
(* Resource model: the Go structs and their json tags.                     *)
(***************************************************************************)
ZeroBridge ==
  [Bridge_class |-> "", Bridge_type |-> "", Channels |-> <<>>, Creator |-> "",
   Id |-> "", Name |-> "", Technology |-> ""]

\* json.Unmarshal into Bridge: each struct field takes the value of its tag's key.
DecodeBridge(obj) ==
  [Bridge_class |-> obj.bridge, Bridge_type |-> obj.bridge_type,
   Channels |-> obj.channels, Creator |-> obj.creator, Id |-> obj.id,
   Name |-> obj.name, Technology |-> obj.technology]

CreateBridgeRequestTags ==
  << [field |-> "Id", key |-> "bridgeId", omitempty |-> TRUE],
     [field |-> "Type", key |-> "type", omitempty |-> TRUE],
     [field |-> "Name", key |-> "name", omitempty |-> TRUE] >>

\* The role tag without omitempty.
AddChannelRequestTagsRoleKept ==
  << [field |-> "ChannelId", key |-> "channel", omitempty |-> FALSE],
     [field |-> "Role", key |-> "role", omitempty |-> FALSE] >>

AddChannelRequestTags ==
  << [field |-> "ChannelId", key |-> "channel", omitempty |-> FALSE],
     [field |-> "Role", key |-> "role", omitempty |-> TRUE] >>

RemoveChannelRequestTags ==
  << [field |-> "ChannelId", key |-> "channel", omitempty |-> FALSE] >>

MohRequestTags ==
  << [field |-> "MohClass", key |-> "mohClass", omitempty |-> TRUE] >>

\* json.Marshal of a struct of strings: a field tagged omitempty is left out
\* when it holds the empty string, every other field is written under its key.
Marshal(tags, v) ==
  LET kept == {i \in DOMAIN tags : ~(tags[i].omitempty /\ v[tags[i].field] = "")}
      keys == {tags[i].key : i \in kept}
  IN [k \in keys |-> v[tags[CHOOSE i \in kept : tags[i].key = k].field]]

\* The payload types of other files are sent as they are.
MarshalOpaque(req) == req

EmptyObject == [k \in {} |-> ""]

ZeroPlayback == [Id |-> ""]
ZeroLiveRecording == [Name |-> ""]

ZeroValue(target) ==
  CASE target = "Bridge" -> ZeroBridge
    [] target = "Bridges" -> <<>>
    [] target = "Playback" -> ZeroPlayback
    [] target = "LiveRecording" -> ZeroLiveRecording
    [] OTHER -> NoValue

(***************************************************************************)
(* The remote server: the bridges in creation order and the channels that  *)
(* exist.                                                                  *)
(***************************************************************************)
DefaultName == ""
DefaultType == "mixing"

BridgeAt(srv, id) == {i \in DOMAIN srv.bridges : srv.bridges[i].id = id}
HasBridge(srv, id) == BridgeAt(srv, id) # {}
TheBridge(srv, id) == srv.bridges[CHOOSE i \in BridgeAt(srv, id) : TRUE]
UsedIds(srv) == {srv.bridges[i].id : i \in DOMAIN srv.bridges}

RECURSIVE SeqWithout(_, _)
SeqWithout(s, x) ==
  IF s = <<>> THEN <<>>
  ELSE IF Head(s) = x THEN SeqWithout(Tail(s), x)
  ELSE <<Head(s)>> \o SeqWithout(Tail(s), x)

SeqRange(s) == {s[i] : i \in DOMAIN s}

\* The type of a bridge is not tracked: every bridge is shown as a mixing one.
BridgeJSON(b) ==
  [bridge |-> "stasis", bridge_type |-> DefaultType, channels |-> b.channels,
   creator |-> "Stasis", id |-> b.id, name |-> b.name,
   technology |-> "simple_bridge"]

RECURSIVE BridgesJSON(_)
BridgesJSON(bs) ==
  IF bs = <<>> THEN <<>> ELSE <<BridgeJSON(Head(bs))>> \o BridgesJSON(Tail(bs))

Reply(srv, status, body) == [srv |-> srv, status |-> status, body |-> body]

Field(obj, key, default) == IF key \in DOMAIN obj THEN obj[key] ELSE default

ReplaceBridge(srv, id, b) ==
  [srv EXCEPT !.bridges =
     [i \in DOMAIN srv.bridges |->
        IF srv.bridges[i].id = id THEN b ELSE srv.bridges[i]]]

\* POST /bridges/{id}: create the bridge if the id is free, update it in place
\* if it is in use.  A name the payload leaves out is the server's default on
\* creation; on an update the server keeps the name or resets it (pick.keep).
ServeUpsert(srv, id, obj, pick) ==
  IF HasBridge(srv, id)
  THEN LET old == TheBridge(srv, id)
           b == [old EXCEPT
                   !.name = Field(obj, "name",
                                  IF pick.keep THEN old.name ELSE DefaultName)]
       IN Reply(ReplaceBridge(srv, id, b), 200, BridgeJSON(b))
  ELSE LET b == [id |-> id, name |-> Field(obj, "name", DefaultName),
                 channels |-> <<>>]
       IN Reply([srv EXCEPT !.bridges = Append(srv.bridges, b)], 200, BridgeJSON(b))

\* POST /bridges: a new bridge under the id of the payload, or under an id the
\* server assigns; an id already in use is rejected.
ServeCreate(srv, obj, pick) ==
  LET free == BridgeIds \ UsedIds(srv)
  IN IF "bridgeId" \in DOMAIN obj
     THEN IF HasBridge(srv, obj.bridgeId)
          THEN Reply(srv, 409, EmptyObject)
          ELSE ServeUpsert(srv, obj.bridgeId, obj, pick)
     ELSE IF free = {}
          THEN Reply(srv, 500, EmptyObject)
          ELSE ServeUpsert(srv, IF pick.newId \in free THEN pick.newId
                                ELSE CHOOSE i \in free : TRUE, obj, pick)

ServeAddChannel(srv, id, obj) ==
  IF ~HasBridge(srv, id) THEN Reply(srv, 404, EmptyObject)
  ELSE IF obj.channel \notin srv.channels THEN Reply(srv, 400, EmptyObject)
  ELSE LET old == TheBridge(srv, id)
           b == IF obj.channel \in SeqRange(old.channels) THEN old
                ELSE [old EXCEPT !.channels = Append(old.channels, obj.channel)]
       IN Reply(ReplaceBridge(srv, id, b), 204, EmptyObject)

ServeRemoveChannel(srv, id, obj) ==
  IF ~HasBridge(srv, id) THEN Reply(srv, 404, EmptyObject)
  ELSE IF obj.channel \notin srv.channels THEN Reply(srv, 400, EmptyObject)
  ELSE LET old == TheBridge(srv, id)
       IN IF obj.channel \notin SeqRange(old.channels)
          THEN Reply(srv, 422, EmptyObject)
          ELSE Reply(ReplaceBridge(srv, id,
                       [old EXCEPT !.channels = SeqWithout(old.channels, obj.channel)]),
                     204, EmptyObject)

\* DELETE /bridges/{id}: the bridge goes, its member channels stay.
ServeDelete(srv, id) ==
  IF ~HasBridge(srv, id) THEN Reply(srv, 404, EmptyObject)
  ELSE Reply([srv EXCEPT !.bridges =
                SelectSeq(srv.bridges, LAMBDA b : b.id # id)], 204, EmptyObject)

\* An action on a bridge that changes nothing this model keeps.
ServeAction(srv, id, body) ==
  IF HasBridge(srv, id) THEN Reply(srv, IF body = EmptyObject THEN 204 ELSE 201, body)
  ELSE Reply(srv, 404, EmptyObject)

Handle(srv, call, pick) ==
  LET p == call.path
      m == call.method
      n == Len(p)
  IN CASE m = "GET" /\ p = <<"/bridges">> ->
            Reply(srv, 200, BridgesJSON(srv.bridges))
       [] m = "POST" /\ p = <<"/bridges">> -> ServeCreate(srv, call.body, pick)
       [] m = "GET" /\ n = 2 /\ p[1] = "/bridges/" ->
            IF HasBridge(srv, p[2])
            THEN Reply(srv, 200, BridgeJSON(TheBridge(srv, p[2])))
            ELSE Reply(srv, 404, EmptyObject)
       [] m = "POST" /\ n = 2 /\ p[1] = "/bridges/" ->
            ServeUpsert(srv, p[2], call.body, pick)
       [] m = "DELETE" /\ n = 2 /\ p[1] = "/bridges/" -> ServeDelete(srv, p[2])
       [] m = "POST" /\ n = 3 /\ p[1] = "/bridges/" /\ p[3] = "/addChannel" ->
            ServeAddChannel(srv, p[2], call.body)
       [] m = "POST" /\ n = 3 /\ p[1] = "/bridges/" /\ p[3] = "/removeChannel" ->
            ServeRemoveChannel(srv, p[2], call.body)
       [] m = "POST" /\ n = 3 /\ p[1] = "/bridges/" /\ p[3] = "/moh" ->
            ServeAction(srv, p[2], EmptyObject)
       [] m = "DELETE" /\ n = 3 /\ p[1] = "/bridges/" /\ p[3] = "/moh" ->
            ServeAction(srv, p[2], EmptyObject)
       [] m = "POST" /\ n = 3 /\ p[1] = "/bridges/" /\ p[3] = "/play" ->
            ServeAction(srv, p[2], [id |-> "auto"])
       [] m = "POST" /\ n = 4 /\ p[1] = "/bridges/" /\ p[3] = "/play/" ->
            ServeAction(srv, p[2], [id |-> p[4]])
       [] m = "POST" /\ n = 3 /\ p[1] = "/bridges/" /\ p[3] = "/record" ->
            ServeAction(srv, p[2], [name |-> call.body.name])
       [] OTHER -> Reply(srv, 404, EmptyObject)

(***************************************************************************)
(* The transport: AriGet, AriPost, AriDelete.                              *)
(***************************************************************************)
Outcomes == {"ok", "network", "decode"}
Picks == [keep : BOOLEAN, newId : BridgeIds]
NoPick == [keep |-> TRUE, newId |-> "b1"]
\* The round trips that differ for a call: the server's choices matter only
\* where it creates or updates a bridge, a decoding failure only where there is
\* a target to decode into.
Rounds(target, picks) ==
  {[outcome |-> "network", pick |-> NoPick]}
    \cup [outcome : IF target = "nil" THEN {"ok"} ELSE {"ok", "decode"}, pick : picks]

StatusError(status) == ToString(status)

RECURSIVE DecodeBridges(_)
DecodeBridges(objs) ==
  IF objs = <<>> THEN <<>>
  ELSE <<DecodeBridge(Head(objs))>> \o DecodeBridges(Tail(objs))

Decode(target, body) ==
  CASE target = "Bridge" -> DecodeBridge(body)
    [] target = "Bridges" -> DecodeBridges(body)
    [] target = "Playback" -> [Id |-> body.id]
    [] target = "LiveRecording" -> [Name |-> body.name]
    [] OTHER -> NoValue

\* A decoder that stops on a malformed value has filled the fields before it:
\* of a Bridge the class and type, of a list its first element.
DecodePartly(target, body) ==
  CASE target = "Bridge" ->
         [ZeroBridge EXCEPT !.Bridge_class = body.bridge,
                            !.Bridge_type = body.bridge_type]
    [] target = "Bridges" ->
         IF body = <<>> THEN <<>> ELSE <<DecodeBridge(Head(body))>>
    [] OTHER -> ZeroValue(target)

\* One round trip.  The request is lost ("network"), or it reaches the server,
\* which answers with a status and a body; a status outside 2xx is an error,
\* and so is a body that does not decode into the target ("decode").
Transport(srv, call, round) ==
  IF round.outcome = "network"
  THEN [srv |-> srv, target |-> ZeroValue(call.target), err |-> "network"]
  ELSE LET h == Handle(srv, call, round.pick)
       IN IF h.status >= 300
          THEN [srv |-> h.srv, target |-> ZeroValue(call.target),
                err |-> StatusError(h.status)]
          ELSE IF round.outcome = "decode" /\ call.target # "nil"
          THEN [srv |-> h.srv, target |-> DecodePartly(call.target, h.body),
                err |-> "decode"]
          ELSE [srv |-> h.srv, target |-> Decode(call.target, h.body),
                err |-> NoErr]

AriGet(path, target) ==
  [method |-> "GET", path |-> path, target |-> target, hasBody |-> FALSE,
   body |-> EmptyObject]

AriPost(path, target, body) ==
  [method |-> "POST", path |-> path, target |-> target, hasBody |-> TRUE,
   body |-> body]

AriDelete(path) ==
  [method |-> "DELETE", path |-> path, target |-> "nil", hasBody |-> FALSE,
   body |-> EmptyObject]

(***************************************************************************)
(* The bridge controller.  Each operation takes the server it talks to and *)
(* the round trip it gets, and yields the server afterwards, the transport *)
(* calls it issued with the error of each, and what it returns.            *)
(***************************************************************************)
Returned(call, r, val) ==
  [srv |-> r.srv, calls |-> <<call>>, replies |-> <<r.err>>, val |-> val,
   err |-> r.err]

ListBridges(srv, round) ==
  LET call == AriGet(<<"/bridges">>, "Bridges")
      r == Transport(srv, call, round)
  IN Returned(call, r, r.target)

CreateBridge(srv, round, req) ==
  LET call == AriPost(<<"/bridges">>, "Bridge", Marshal(CreateBridgeRequestTags, req))
      r == Transport(srv, call, round)
  IN Returned(call, r, r.target)

\* The upsert posted to the collection, the id left out of the path.
UpsertBridgeToCollection(srv, round, bridgeId, req) ==
  LET call == AriPost(<<"/bridges">>, "Bridge", Marshal(CreateBridgeRequestTags, req))
      r == Transport(srv, call, round)
  IN Returned(call, r, r.target)

UpsertBridge(srv, round, bridgeId, req) ==
  LET call == AriPost(<<"/bridges/", bridgeId>>, "Bridge",
                      Marshal(CreateBridgeRequestTags, req))
      r == Transport(srv, call, round)
  IN Returned(call, r, r.target)

\* The request built without the generated id.
NewBridgeEmptyRequest(srv, round, id) ==
  UpsertBridge(srv, round, id, [Id |-> "", Type |-> "", Name |-> ""])

\* id is the value uuid.New() returned.
NewBridge(srv, round, id) ==
  UpsertBridge(srv, round, id, [Id |-> id, Type |-> "", Name |-> ""])

GetBridge(srv, round, bridgeId) ==
  LET call == AriGet(<<"/bridges/", bridgeId>>, "Bridge")
      r == Transport(srv, call, round)
  IN Returned(call, r, r.target)

AddChannel(srv, round, bridgeId, req) ==
  LET call == AriPost(<<"/bridges/", bridgeId, "/addChannel">>, "nil",
                      Marshal(AddChannelRequestTags, req))
      r == Transport(srv, call, round)
  IN Returned(call, r, NoValue)

\* The removal posted to the path of AddChannel.
RemoveChannelToAddPath(srv, round, bridgeId, channelId) ==
  LET req == [ChannelId |-> channelId]
      call == AriPost(<<"/bridges/", bridgeId, "/addChannel">>, "nil",
                      Marshal(RemoveChannelRequestTags, req))
      r == Transport(srv, call, round)
  IN Returned(call, r, NoValue)

RemoveChannel(srv, round, bridgeId, channelId) ==
  LET req == [ChannelId |-> channelId]
      call == AriPost(<<"/bridges/", bridgeId, "/removeChannel">>, "nil",
                      Marshal(RemoveChannelRequestTags, req))
      r == Transport(srv, call, round)
  IN Returned(call, r, NoValue)

PlayMusicOnHold(srv, round, bridgeId, mohClass) ==
  LET req == [MohClass |-> mohClass]
      call == AriPost(<<"/bridges/", bridgeId, "/moh">>, "nil",
                      Marshal(MohRequestTags, req))
      r == Transport(srv, call, round)
  IN Returned(call, r, NoValue)

PlayToBridge(srv, round, bridgeId, req) ==
  LET call == AriPost(<<"/bridges/", bridgeId, "/play">>, "Playback",
                      MarshalOpaque(req))
      r == Transport(srv, call, round)
  IN Returned(call, r, r.target)

PlayToBridgeById(srv, round, bridgeId, playbackId, req) ==
  LET call == AriPost(<<"/bridges/", bridgeId, "/play/", playbackId>>, "Playback",
                      MarshalOpaque(req))
      r == Transport(srv, call, round)
  IN Returned(call, r, r.target)

RecordBridge(srv, round, bridgeId, req) ==
  LET call == AriPost(<<"/bridges/", bridgeId, "/record">>, "LiveRecording",
                      MarshalOpaque(req))
      r == Transport(srv, call, round)
  IN Returned(call, r, r.target)

\* The delete sent to the path of BridgeStopMoh.
BridgeDeleteToMohPath(srv, round, bridgeId) ==
  LET call == AriDelete(<<"/bridges/", bridgeId, "/moh">>)
      r == Transport(srv, call, round)
  IN Returned(call, r, NoValue)

BridgeDelete(srv, round, bridgeId) ==
  LET call == AriDelete(<<"/bridges/", bridgeId>>)
      r == Transport(srv, call, round)
  IN Returned(call, r, NoValue)

BridgeStopMoh(srv, round, bridgeId) ==
  LET call == AriDelete(<<"/bridges/", bridgeId, "/moh">>)
      r == Transport(srv, call, round)
  IN Returned(call, r, NoValue)

(***************************************************************************)
(* Callers.  last is the operation that ran last, with its arguments (req, *)
(* and key: the name or channel it is about) and what came of it; before   *)
(* is the server as it was when that operation started.                    *)
(***************************************************************************)
\* uuid.New() draws a random value; a caller may pass any string, a value of
\* that shape included, as a bridge id.
Uuids == BridgeIds

Ran(op, bridgeId, key, req, res) ==
  [op |-> op, bridgeId |-> bridgeId, key |-> key, req |-> req,
   calls |-> res.calls, replies |-> res.replies, val |-> res.val, err |-> res.err]

CallListBridges ==
  \E round \in Rounds("Bridges", {NoPick}) :
    \E res \in {ListBridges(server, round)} :
       /\ server' = res.srv
       /\ before' = server
       /\ last' = Ran("ListBridges", "", "", EmptyObject, res)
       /\ UNCHANGED carriers

CallCreateBridge ==
  \E round \in Rounds("Bridge", [keep : {TRUE}, newId : BridgeIds]),
     req \in CreateBridgeRequests :
    \E res \in {CreateBridge(server, round, req)} :
       /\ server' = res.srv
       /\ before' = server
       /\ last' = Ran("CreateBridge", req.Id, req.Name, req, res)
       /\ UNCHANGED carriers

CallUpsertBridge ==
  \E round \in Rounds("Bridge", [keep : BOOLEAN, newId : {"b1"}]),
     bridgeId \in BridgeIds,
     req \in CreateBridgeRequests :
    \E res \in {UpsertBridge(server, round, bridgeId, req)} :
       /\ server' = res.srv
       /\ before' = server
       /\ last' = Ran("UpsertBridge", bridgeId, req.Name, req, res)
       /\ UNCHANGED carriers

CallNewBridge ==
  \E round \in Rounds("Bridge", [keep : BOOLEAN, newId : {"b1"}]),
     id \in Uuids :
    \E res \in {NewBridge(server, round, id)} :
       /\ server' = res.srv
       /\ before' = server
       /\ last' = Ran("NewBridge", id, "", [Id |-> id, Type |-> "", Name |-> ""], res)
       /\ UNCHANGED carriers

CallGetBridge ==
  \E round \in Rounds("Bridge", {NoPick}),
     bridgeId \in BridgeIds :
    \E res \in {GetBridge(server, round, bridgeId)} :
       /\ server' = res.srv
       /\ before' = server
       /\ last' = Ran("GetBridge", bridgeId, "", EmptyObject, res)
       /\ UNCHANGED carriers

CallAddChannel ==
  \E round \in Rounds("nil", {NoPick}),
     bridgeId \in BridgeIds,
     req \in AddChannelRequests :
    \E res \in {AddChannel(server, round, bridgeId, req)} :
       /\ server' = res.srv
       /\ before' = server
       /\ last' = Ran("AddChannel", bridgeId, req.ChannelId, req, res)
       /\ UNCHANGED carriers

CallRemoveChannel ==
  \E round \in Rounds("nil", {NoPick}),
     bridgeId \in BridgeIds,
     channelId \in ChannelIds :
    \E res \in {RemoveChannel(server, round, bridgeId, channelId)} :
       /\ server' = res.srv
       /\ before' = server
       /\ last' = Ran("RemoveChannel", bridgeId, channelId, [ChannelId |-> channelId], res)
       /\ UNCHANGED carriers

CallPlayMusicOnHold ==
  \E round \in Rounds("nil", {NoPick}),
     bridgeId \in BridgeIds,
     mohClass \in MohClasses :
    \E res \in {PlayMusicOnHold(server, round, bridgeId, mohClass)} :
       /\ server' = res.srv
       /\ before' = server
       /\ last' = Ran("PlayMusicOnHold", bridgeId, mohClass, [MohClass |-> mohClass], res)
       /\ UNCHANGED carriers

CallPlayToBridge ==
  \E round \in Rounds("Playback", {NoPick}),
     bridgeId \in BridgeIds,
     req \in PlayMediaRequests :
    \E res \in {PlayToBridge(server, round, bridgeId, req)} :
       /\ server' = res.srv
       /\ before' = server
       /\ last' = Ran("PlayToBridge", bridgeId, "", req, res)
       /\ UNCHANGED carriers

CallPlayToBridgeById ==
  \E round \in Rounds("Playback", {NoPick}),
     bridgeId \in BridgeIds,
     playbackId \in PlaybackIds,
     req \in PlayMediaRequests :
    \E res \in {PlayToBridgeById(server, round, bridgeId, playbackId, req)} :
       /\ server' = res.srv
       /\ before' = server
       /\ last' = Ran("PlayToBridgeById", bridgeId, playbackId, req, res)
       /\ UNCHANGED carriers

CallRecordBridge ==
  \E round \in Rounds("LiveRecording", {NoPick}),
     bridgeId \in BridgeIds,
     req \in RecordRequests :
    \E res \in {RecordBridge(server, round, bridgeId, req)} :
       /\ server' = res.srv
       /\ before' = server
       /\ last' = Ran("RecordBridge", bridgeId, "", req, res)
       /\ UNCHANGED carriers

CallBridgeDelete ==
  \E round \in Rounds("nil", {NoPick}),
     bridgeId \in BridgeIds :
    \E res \in {BridgeDelete(server, round, bridgeId)} :
       /\ server' = res.srv
       /\ before' = server
       /\ last' = Ran("BridgeDelete", bridgeId, "", EmptyObject, res)
       /\ UNCHANGED carriers

CallBridgeStopMoh ==
  \E round \in Rounds("nil", {NoPick}),
     bridgeId \in BridgeIds :
    \E res \in {BridgeStopMoh(server, round, bridgeId)} :
       /\ server' = res.srv
       /\ before' = server
       /\ last' = Ran("BridgeStopMoh", bridgeId, "", EmptyObject, res)
       /\ UNCHANGED carriers

(***************************************************************************)
(* Context helpers.  A context is the chain of the values attached to it,  *)
(* oldest first; a key is a value of a Go type, so is an attached value.   *)
(* A *Bridge is the name of the Bridge it points to, or "nil".             *)
(***************************************************************************)
MaxCarriers == 4

BridgePtrs == {"nil", "B1", "B2"}
KeyNames == {"_default", "peer"}
LookupNames == KeyNames \cup {"unused"}

Background == <<>>

\* A context of the caller's that holds a value of another package under the
\* plain string "_default".
Foreign ==
  << [key |-> [type |-> "string", name |-> "_default"],
      val |-> [type |-> "string", ptr |-> "x"]] >>

NilValue == [type |-> "nil", ptr |-> "nil"]

\* context.WithValue: a new context that wraps the parent.
WithValue(ctx, key, val) == Append(ctx, [key |-> key, val |-> val])

\* ctx.Value: the value of the nearest context of the chain that holds the key.
RECURSIVE Value(_, _)
Value(ctx, key) ==
  IF ctx = <<>> THEN NilValue
  ELSE IF ctx[Len(ctx)].key = key THEN ctx[Len(ctx)].val
  ELSE Value(SubSeq(ctx, 1, Len(ctx) - 1), key)

bridgeKey(name) == [type |-> "bridgeKey", name |-> name]

\* The name dropped: every bridge goes under "_default".
NewBridgeContextWithKeyNameDropped(ctx, b, name) ==
  WithValue(ctx, bridgeKey("_default"), [type |-> "*Bridge", ptr |-> b])

NewBridgeContextWithKey(ctx, b, name) ==
  WithValue(ctx, bridgeKey(name), [type |-> "*Bridge", ptr |-> b])

\* The default attachment under a name of its own.
NewBridgeContextOwnName(ctx, b) == NewBridgeContextWithKey(ctx, b, "default")

NewBridgeContext(ctx, b) == NewBridgeContextWithKey(ctx, b, "_default")

\* The type assertion .(*Bridge): the pointer and true for a *Bridge, nil and
\* false for anything else.
BridgeFromContextWithKey(ctx, name) ==
  LET v == Value(ctx, bridgeKey(name))
      ok == v.type = "*Bridge"
  IN <<IF ok THEN v.ptr ELSE "nil", ok>>

\* The default lookup under another name than the default attachment.
BridgeFromContextOtherName(ctx) == BridgeFromContextWithKey(ctx, "default")

BridgeFromContext(ctx) == BridgeFromContextWithKey(ctx, "_default")

\* carriers holds every context made so far, each with the call that made it:
\* the context it was made from (parent), the bridge and the name given.
Root(ctx) == [ctx |-> ctx, parent |-> 0, via |-> "caller", b |-> "nil", name |-> ""]

CallNewBridgeContext ==
  \E i \in DOMAIN carriers, b \in BridgePtrs :
    /\ Len(carriers) < MaxCarriers
    /\ carriers' = Append(carriers,
         [ctx |-> NewBridgeContext(carriers[i].ctx, b), parent |-> i,
          via |-> "NewBridgeContext", b |-> b, name |-> ""])
    /\ UNCHANGED <<server, before, last>>

CallNewBridgeContextWithKey ==
  \E i \in DOMAIN carriers, b \in BridgePtrs, name \in KeyNames :
    /\ Len(carriers) < MaxCarriers
    /\ carriers' = Append(carriers,
         [ctx |-> NewBridgeContextWithKey(carriers[i].ctx, b, name), parent |-> i,
          via |-> "NewBridgeContextWithKey", b |-> b, name |-> name])
    /\ UNCHANGED <<server, before, last>>

Init ==
  /\ server = [bridges |-> <<>>, channels |-> ChannelIds]
  /\ last = [op |-> "none", bridgeId |-> "", key |-> "", req |-> EmptyObject,
             calls |-> <<>>, replies |-> <<>>, val |-> NoValue, err |-> NoErr]
  /\ before = server
  /\ carriers = <<Root(Background), Root(Foreign)>>

Next ==
  \/ CallListBridges
  \/ CallCreateBridge
  \/ CallUpsertBridge
  \/ CallNewBridge
  \/ CallGetBridge
  \/ CallAddChannel
  \/ CallRemoveChannel
  \/ CallPlayMusicOnHold
  \/ CallPlayToBridge
  \/ CallPlayToBridgeById
  \/ CallRecordBridge
  \/ CallBridgeDelete
  \/ CallBridgeStopMoh

Spec == Init /\ [][Next]_vars

CtxNext ==
  \/ CallNewBridgeContext
  \/ CallNewBridgeContextWithKey

CtxSpec == Init /\ [][CtxNext]_vars

(***************************************************************************)
(* Properties of the controller, checked under Spec.                       *)
(***************************************************************************)
OkRound == [outcome |-> "ok", pick |-> NoPick]

Ok(op) == last.op = op /\ last.err = NoErr

\* The ids a ListBridges() on srv returns.
ListedIds(srv) ==
  LET l == ListBridges(srv, OkRound).val IN {l[i].Id : i \in DOMAIN l}

\* What a GetBridge(id) on srv returns.
Got(srv, id) == GetBridge(srv, OkRound, id)

NotFound == StatusError(404)

SecondUpsertWins ==
  /\ Cardinality(BridgeAt(server, last.bridgeId)) = 1
  /\ last.val.Name = last.req.Name
  /\ Got(server, last.bridgeId).err = NoErr
  /\ Got(server, last.bridgeId).val.Name = last.req.Name

TwoUpserts ==
  /\ Ok("UpsertBridge")
  /\ Ok("UpsertBridge")'
  /\ last'.bridgeId = last.bridgeId
  /\ last'.req.Name # last.req.Name

\* C2 as stated: two successful UpsertBridge(id, req1), UpsertBridge(id, req2)
\* with different Name leave exactly one bridge with the id, and the second
\* call and a following GetBridge(id) return Name = req2.Name.
C2_SecondUpsertNameWins ==
  [][TwoUpserts => SecondUpsertWins']_vars

\* C2 amended: the same, for a second request whose Name is not empty (an
\* empty Name is left out of the payload, so the server is not told of it).
C2_SecondUpsertNonEmptyNameWins ==
  [][(TwoUpserts /\ last'.req.Name # "") => SecondUpsertWins']_vars

C2_Witness ==
  /\ Ok("UpsertBridge")
  /\ last.req.Name = "n2"
  /\ HasBridge(before, last.bridgeId)
  /\ TheBridge(before, last.bridgeId).name = "n1"
  /\ Len(server.bridges) = 2
  /\ SecondUpsertWins

\* C5: every operation returns the error of its transport call and, with it,
\* no partially populated result (the zero value of the result type); when the
\* transport call succeeds it returns no error.
C5_ErrorWithoutPartialResult ==
  last.op # "none" =>
    /\ last.replies[1] # NoErr =>
         /\ last.err = last.replies[1]
         /\ last.val = ZeroValue(last.calls[1].target)
    /\ last.replies[1] = NoErr => last.err = NoErr

\* C6: from a state where bridge id exists without channel c1, after a
\* successful AddChannel(id, {ChannelId: c1}) GetBridge(id) shows c1 among the
\* Channels; after a successful RemoveChannel(id, c1) GetBridge(id) does not
\* show c1, and shows every other channel that was a member.
C6_AddThenRemoveChannel ==
  /\ (/\ Ok("AddChannel")
      /\ HasBridge(before, last.bridgeId)
      /\ last.key \notin SeqRange(TheBridge(before, last.bridgeId).channels))
     => /\ Got(server, last.bridgeId).err = NoErr
        /\ last.key \in SeqRange(Got(server, last.bridgeId).val.Channels)
  /\ Ok("RemoveChannel")
     => /\ Got(server, last.bridgeId).err = NoErr
        /\ last.key \notin SeqRange(Got(server, last.bridgeId).val.Channels)
        /\ \A c \in SeqRange(Got(before, last.bridgeId).val.Channels) \ {last.key} :
             c \in SeqRange(Got(server, last.bridgeId).val.Channels)

C6_Witness ==
  /\ Ok("RemoveChannel")
  /\ last.key = "c1"
  /\ Got(before, last.bridgeId).val.Channels = <<"c1", "c2">>
  /\ Got(server, last.bridgeId).val.Channels = <<"c2">>

\* C7: after a successful BridgeDelete(id), GetBridge(id) returns a not-found
\* error, ListBridges() does not list the id, and the channels that were
\* members of the bridge still exist.
C7_DeletedBridgeIsGone ==
  Ok("BridgeDelete") =>
    /\ HasBridge(before, last.bridgeId)
    /\ Got(server, last.bridgeId).err = NotFound
    /\ last.bridgeId \notin ListedIds(server)
    /\ \A c \in SeqRange(TheBridge(before, last.bridgeId).channels) :
         c \in server.channels

C7_Witness ==
  /\ Ok("BridgeDelete")
  /\ Len(TheBridge(before, last.bridgeId).channels) = 2
  /\ Len(server.bridges) = 1
  /\ Got(server, last.bridgeId).err = NotFound

\* The wire mapping: the method and the path of each operation.
WireMethod(op) ==
  IF op \in {"ListBridges", "GetBridge"} THEN "GET"
  ELSE IF op \in {"BridgeDelete", "BridgeStopMoh"} THEN "DELETE"
  ELSE "POST"

WirePath(op, id, key) ==
  CASE op \in {"ListBridges", "CreateBridge"} -> <<"/bridges">>
    [] op \in {"UpsertBridge", "NewBridge", "GetBridge", "BridgeDelete"} ->
         <<"/bridges/", id>>
    [] op = "AddChannel" -> <<"/bridges/", id, "/addChannel">>
    [] op = "RemoveChannel" -> <<"/bridges/", id, "/removeChannel">>
    [] op \in {"PlayMusicOnHold", "BridgeStopMoh"} -> <<"/bridges/", id, "/moh">>
    [] op = "PlayToBridge" -> <<"/bridges/", id, "/play">>
    [] op = "PlayToBridgeById" -> <<"/bridges/", id, "/play/", key>>
    [] op = "RecordBridge" -> <<"/bridges/", id, "/record">>

\* C8: every operation issues exactly one transport call, whether it succeeds
\* or fails, with the method and the path of the wire mapping; the body of
\* NewBridge's call carries the id that is in its path.
C8_OneCallPerOperation ==
  last.op # "none" =>
    /\ Len(last.calls) = 1
    /\ last.calls[1].method = WireMethod(last.op)
    /\ last.calls[1].path = WirePath(last.op, last.bridgeId, last.key)
    /\ last.op = "NewBridge" =>
         Field(last.calls[1].body, "bridgeId", "") = last.calls[1].path[2]

C8_Witness ==
  /\ last.op = "NewBridge"
  /\ last.err = "network"
  /\ last.calls = <<AriPost(<<"/bridges/", "b2">>, "Bridge", [bridgeId |-> "b2"])>>

\* The key of each request field, and the keys that are omitted if absent.
WireKey ==
  [Id |-> "bridgeId", Type |-> "type", Name |-> "name", ChannelId |-> "channel",
   Role |-> "role", MohClass |-> "mohClass"]

OmitIfAbsent == {"bridgeId", "type", "name", "role", "mohClass"}

\* C9: in every request body, a field marked omit-if-absent that the caller
\* left empty is absent from the payload, and every field the caller set is
\* present with the caller's value.
C9_UnsetFieldsOmitted ==
  last.op \in {"CreateBridge", "UpsertBridge", "NewBridge", "AddChannel",
               "RemoveChannel", "PlayMusicOnHold"} =>
    \A f \in DOMAIN last.req :
      LET body == last.calls[1].body IN
        /\ (last.req[f] = "" /\ WireKey[f] \in OmitIfAbsent)
             => WireKey[f] \notin DOMAIN body
        /\ last.req[f] # "" => Field(body, WireKey[f], "") = last.req[f]

C9_Witness ==
  /\ last.op = "CreateBridge"
  /\ last.req = [Id |-> "", Type |-> "", Name |-> "n1"]
  /\ last.calls[1].body = [name |-> "n1"]

(***************************************************************************)
(* Properties of the context helpers, checked under CtxSpec.               *)
(***************************************************************************)
\* The name a carrier's bridge went under: NewBridgeContext gives none, and
\* stands for the default attachment.
SlotOf(e) ==
  CASE e.via = "NewBridgeContext" -> "(default)"
    [] e.via = "NewBridgeContextWithKey" -> e.name
    [] OTHER -> "(caller)"

\* The bridge attached last under a slot on the way from the root to carrier k.
RECURSIVE Attached(_, _)
Attached(k, slot) ==
  IF k = 0 THEN [found |-> FALSE, b |-> "nil"]
  ELSE IF SlotOf(carriers[k]) = slot THEN [found |-> TRUE, b |-> carriers[k].b]
  ELSE Attached(carriers[k].parent, slot)

NoDefaultBridge(k) ==
  ~Attached(k, "(default)").found /\ ~Attached(k, "_default").found

\* C3: for a carrier with no bridge attached, BridgeFromContext of
\* NewBridgeContext(ctx, b) is (b, true), and BridgeFromContext of the original
\* carrier is still (nil, false).
C3_AttachLeavesOriginal ==
  \A k \in DOMAIN carriers :
    (carriers[k].via = "NewBridgeContext" /\ NoDefaultBridge(carriers[k].parent))
      => /\ BridgeFromContext(carriers[k].ctx) = <<carriers[k].b, TRUE>>
         /\ BridgeFromContext(carriers[carriers[k].parent].ctx) = <<"nil", FALSE>>

C3_Witness ==
  \E k \in DOMAIN carriers :
    /\ carriers[k].via = "NewBridgeContext"
    /\ carriers[k].b = "B1"
    /\ carriers[carriers[k].parent].ctx = Foreign
    /\ BridgeFromContext(carriers[k].ctx) = <<"B1", TRUE>>
    /\ BridgeFromContext(Foreign) = <<"nil", FALSE>>

\* C4: on a carrier made by attachments in any order, a bridge attached under
\* a name other than the default does not shadow the bridge of the default
\* attachment: BridgeFromContext returns the one, BridgeFromContextWithKey(name)
\* the other, and a name never attached returns (nil, false).
C4_NamedAttachmentsCoexist ==
  \A k \in DOMAIN carriers :
    /\ (Attached(k, "(default)").found /\ ~Attached(k, "_default").found)
         => BridgeFromContext(carriers[k].ctx) = <<Attached(k, "(default)").b, TRUE>>
    /\ \A name \in LookupNames \ {"_default"} :
         BridgeFromContextWithKey(carriers[k].ctx, name) =
           <<Attached(k, name).b, Attached(k, name).found>>
    /\ NoDefaultBridge(k) => BridgeFromContext(carriers[k].ctx) = <<"nil", FALSE>>

C4_Witness ==
  \E k \in DOMAIN carriers :
    /\ carriers[k].via = "NewBridgeContext"
    /\ carriers[k].b = "B1"
    /\ carriers[carriers[k].parent].via = "NewBridgeContextWithKey"
    /\ carriers[carriers[k].parent].name = "peer"
    /\ carriers[carriers[k].parent].b = "B2"
    /\ BridgeFromContext(carriers[k].ctx) = <<"B1", TRUE>>
    /\ BridgeFromContextWithKey(carriers[k].ctx, "peer") = <<"B2", TRUE>>
    /\ BridgeFromContextWithKey(carriers[k].ctx, "unused") = <<"nil", FALSE>>

\* The key name a carrier's bridge is stored under, if the default attachment
\* is the slot named "_default".
KeyNameOf(e) == IF e.via = "NewBridgeContext" THEN "_default" ELSE e.name

RECURSIVE Stored(_, _)
Stored(k, name) ==
  IF k = 0 \/ carriers[k].via = "caller" THEN [found |-> FALSE, b |-> "nil"]
  ELSE IF KeyNameOf(carriers[k]) = name THEN [found |-> TRUE, b |-> carriers[k].b]
  ELSE Stored(carriers[k].parent, name)

\* C10: NewBridgeContext(ctx, b) and NewBridgeContextWithKey(ctx, b, "_default")
\* write one slot; attaching under a name already used shadows the earlier
\* bridge in the new carrier only, the older carrier still yields the earlier
\* one.
C10_DefaultIsNamedSlot ==
  \A k \in DOMAIN carriers :
    carriers[k].via # "caller" =>
      LET e == carriers[k]
          name == KeyNameOf(e)
          p == e.parent
      IN /\ BridgeFromContextWithKey(e.ctx, name) = <<e.b, TRUE>>
         /\ name = "_default" => BridgeFromContext(e.ctx) = <<e.b, TRUE>>
         /\ BridgeFromContextWithKey(carriers[p].ctx, name) =
              <<Stored(p, name).b, Stored(p, name).found>>

C10_Witness ==
  \E k \in DOMAIN carriers :
    /\ carriers[k].via = "NewBridgeContextWithKey"
    /\ carriers[k].name = "_default"
    /\ carriers[k].b = "B2"
    /\ carriers[carriers[k].parent].via = "NewBridgeContext"
    /\ carriers[carriers[k].parent].b = "B1"
    /\ BridgeFromContext(carriers[k].ctx) = <<"B2", TRUE>>
    /\ BridgeFromContext(carriers[carriers[k].parent].ctx) = <<"B1", TRUE>>

====
